---- MODULE Spec2Model ----
(***************************************************************************)
(* Model of src/src/solar_panel_telemetry.py: the fleet generator, the     *)
(* environment functions, the fault draw, compute_telemetry, the           *)
(* timestamp generator and the driver loop of main.                        *)
(*                                                                         *)
(* Python floats are modelled in fixed point with six decimals: a real     *)
(* value x is the integer x * 10^6 ("micro" units), for watts, volts,      *)
(* amperes, degrees, W/m^2 and dimensionless factors alike.  Products and  *)
(* quotients are truncated to that grid.  Times are whole seconds.         *)
(***************************************************************************)
EXTENDS Integers, Sequences, FiniteSets, TLC

VARIABLES
    pc,            \* position of the operation being run
    args,          \* the inputs of the operation being run
    rng,           \* state of the process-wide random generator
    fleet,         \* generate_panel_fleet: the list built so far
    current,       \* make_time_range: the local `current`
    yielded,       \* make_time_range: the timestamps yielded so far
    site_cloud,    \* main: site_cloud of the timestamp being generated
    string_cloud,  \* main: the per-timestamp dict string_id -> factor
    drawn,         \* per string: draws of its factor in this timestamp
    given,         \* per string: cloud_factor values passed in this timestamp
    idx,           \* main: position of the inner loop in the fleet
    rec,           \* the record last returned by compute_telemetry
    out,           \* main: the records written so far
    run,           \* which of the two independent runs is executing
    first,         \* fleet and output of the first run, kept for comparison
    sun_f,         \* result of diurnal_irradiance_factor
    draws,         \* the random() samples the last call consumed, in order
    locals,        \* compute_telemetry: its locals before the first sample
    tally          \* assign_fault: number of samples mapped to each outcome

vars == <<pc, args, rng, fleet, current, yielded, site_cloud, string_cloud,
          drawn, given, idx, rec, out, run, first, sun_f, draws, locals, tally>>

None == [none |-> TRUE]

----------------------------------------------------------------------------
(* Fixed-point arithmetic.                                                 *)

Kilo == 10 * 100
Micro == Kilo * Kilo
Nano == Kilo * Micro

Abs(x) == IF x < 0 THEN -x ELSE x
Sgn(x) == IF x < 0 THEN -1 ELSE 1
Max(a, b) == IF a >= b THEN a ELSE b
Min(a, b) == IF a <= b THEN a ELSE b

RECURSIVE Pow10(_)
Pow10(k) == IF k = 0 THEN 1 ELSE 10 * Pow10(k - 1)

\* floor(a * b / 10^6) for a, b >= 0, by long multiplication so that no
\* intermediate product leaves the 32-bit range.
MulU(a, b) ==
    LET a1 == a \div Kilo
        a0 == a % Kilo
        b1 == b \div Kilo
        b0 == b % Kilo
        m  == a1 * b0 + a0 * b1
    IN  a1 * b1 + (m \div Kilo) + (((m % Kilo) * Kilo + a0 * b0) \div Micro)

\* the float product a * b (micro units)
Mul(a, b) == Sgn(a) * Sgn(b) * MulU(Abs(a), Abs(b))

RECURSIVE FracDigits(_, _, _)
\* the first k decimal digits of r / b, for 0 <= r < b
FracDigits(r, b, k) ==
    IF k = 0 THEN 0
    ELSE ((r * 10) \div b) * Pow10(k - 1) + FracDigits((r * 10) % b, b, k - 1)

\* the float quotient a / b (micro units), b # 0
Div(a, b) ==
    LET ua == Abs(a)
        ub == Abs(b)
    IN  Sgn(a) * Sgn(b) * ((ua \div ub) * Micro + FracDigits(ua % ub, ub, 6))

\* a * b for 0 <= a, b in nano units (nine decimals), limb by limb; each of
\* the three low partial sums is truncated, so the result is within 3e-9
\* below the exact product.
MulN(a, b) ==
    LET a2 == a \div Micro
        a1 == (a \div Kilo) % Kilo
        a0 == a % Kilo
        b2 == b \div Micro
        b1 == (b \div Kilo) % Kilo
        b0 == b % Kilo
    IN  a2 * b2 * Kilo + (a2 * b1 + a1 * b2)
        + ((a2 * b0 + a1 * b1 + a0 * b2) \div Kilo)
        + ((a1 * b0 + a0 * b1) \div Micro)
        + ((a0 * b0) \div Nano)

\* the quotient a / b in nano units, for integers 0 <= a < b
DivN(a, b) == FracDigits(a, b, 9)

RECURSIVE SqrtSearch(_, _, _)
\* the largest s in lo..hi with s * s <= b (nano units), by bisection
SqrtSearch(b, lo, hi) ==
    IF lo >= hi THEN lo
    ELSE LET mid == lo + ((hi - lo + 1) \div 2)
         IN  IF MulN(mid, mid) <= b THEN SqrtSearch(b, mid, hi)
             ELSE SqrtSearch(b, lo, mid - 1)

\* sqrt(b) for 0 <= b <= 1 (nano units)
SqrtN(b) == SqrtSearch(b, 0, Nano)

\* round(x, nd) of a value in micro units: to the nearest multiple of
\* 10^(6-nd), ties to even, as Python's round
Round(x, nd) ==
    LET q   == Pow10(6 - nd)
        ux  == Abs(x)
        lo  == ux \div q
        rem == ux % q
        up  == \/ 2 * rem > q
               \/ (2 * rem = q /\ lo % 2 = 1)
    IN  Sgn(x) * (IF up THEN lo + 1 ELSE lo) * q

----------------------------------------------------------------------------
(* Time.  A datetime is the number of seconds since midnight of day 0.     *)

DaySeconds == 86400

Hour(t) == (t % DaySeconds) \div 3600
Minute(t) == (t % 3600) \div 60
Second(t) == t % 60

\* the seconds field left out
SsmWithoutSeconds(t) == Hour(t) * 3600 + Minute(t) * 60

seconds_since_midnight(t) == Hour(t) * 3600 + Minute(t) * 60 + Second(t)

\* (t.date() - start.date()).days
day_number_since(start, t) == (t \div DaySeconds) - (start \div DaySeconds)

\* ts.isoformat().replace("+00:00", "Z"): the fields the text is made of
Isoformat(t) == <<t \div DaySeconds, Hour(t), Minute(t), Second(t), "Z">>

----------------------------------------------------------------------------
(* Environment model.                                                      *)

\* math.pi in micro units, and pi / 2 in nano units
Pi == 3141593
HalfPiN == 1570796327

\* sin(y) for 0 <= y <= pi/2 (nano units): the Taylor series to y^11 in
\* Horner form; each y^2 / k is taken as y * (y / k) to stay in range.
SinN(y) ==
    LET t5 == Nano - MulN(y, y \div 110)
        t4 == Nano - MulN(MulN(y, y \div 72), t5)
        t3 == Nano - MulN(MulN(y, y \div 42), t4)
        t2 == Nano - MulN(MulN(y, y \div 20), t3)
        t1 == Nano - MulN(MulN(y, y \div 6), t2)
    IN  MulN(y, t1)

\* math.sin(y) for -pi <= y <= 2 pi (micro units), reduced to the first
\* quadrant
Sin(y) ==
    LET y1 == Abs(y)
        s1 == Sgn(y)
        y2 == IF y1 > Pi THEN y1 - Pi ELSE y1
        s2 == IF y1 > Pi THEN -s1 ELSE s1
        y3 == IF y2 > Pi \div 2 THEN Pi - y2 ELSE y2
    IN  s2 * (SinN(y3 * Kilo) \div Kilo)

\* 6*x**5 - 15*x**4 + 10*x**3 for 0 <= x <= 1 (nano units), evaluated as
\* 10 * x^3 * (0.6 x^2 - 1.5 x + 1) so that every intermediate is at most 1
smoothstep(x) ==
    LET x2  == MulN(x, x)
        x3  == MulN(x2, x)
        q10 == Nano - (x + x \div 2) + MulN(600000000, x2)
    IN  10 * MulN(x3, q10)

\* The result is in nano units, so that the smallest values the function
\* takes one second inside a window are not lost.
diurnal_irradiance_factor(ts, dl_start, dl_end) ==
    LET ssm == seconds_since_midnight(ts)
    IN  IF ssm <= dl_start \/ ssm >= dl_end THEN 0
        ELSE LET span   == dl_end - dl_start
                 x      == DivN(ssm - dl_start, span)
                 \* sin(pi x) = sin(pi (1 - x))
                 xr     == Min(x, Nano - x)
                 base   == SinN(MulN(HalfPiN, 2 * xr))
                 shaped == MulN(base, SqrtN(base))
                 edge   == smoothstep(x)
             IN  IF base < 0 THEN 0
                 ELSE Max(0, Min(Nano,
                          MulN(shaped, 700000000 + MulN(300000000, edge))))

\* random.uniform(a, b) == a + (b - a) * random(), u the random() sample
uniform(a, b, u) == a + Mul(b - a, u)

\* u1, u2: the two samples the function draws, in order
cloud_cover_factor(u1, u2) ==
    LET light      == uniform(850000, Micro, u1)
        p2         == Mul(u2, u2)
        p6         == Mul(Mul(p2, p2), p2)
        occasional == Micro - Mul(p6, 250000)
    IN  Max(600000, Min(Micro, Mul(light, 700000) + Mul(occasional, 300000)))

ambient_temperature_c(ts) ==
    LET ssm   == seconds_since_midnight(ts)
        phase == Mul(2 * Div(ssm, DaySeconds), Pi)
    IN  26 * Micro + 8 * Sin(phase - Pi \div 6)

panel_cell_temp_c(ambient_c, irradiance_wm2) ==
    ambient_c + (irradiance_wm2 \div 800) * 20

orientation_tilt_modifier(orientation_deg, tilt_deg) ==
    LET orient_score ==
            Micro - Mul(Div(Abs(180 * Micro - orientation_deg), 180 * Micro), 100000)
        tilt_score ==
            Micro - Mul(Div(Abs(25 * Micro - tilt_deg), 25 * Micro), 80000)
    IN  Max(850000, Min(1050000, Mul(orient_score, tilt_score)))

----------------------------------------------------------------------------
(* Fault model.                                                            *)

\* (fault, status, p), p in micro units
FAULT_CATALOG ==
    << <<"NONE",          "OK",      0>>,
       <<"SHADING",       "WARNING", 1500>>,
       <<"HOTSPOT",       "FAULT",   500>>,
       <<"STRING_OPEN",   "FAULT",   400>>,
       <<"INVERTER_TRIP", "FAULT",   300>>,
       <<"SOILING",       "WARNING", 800>> >>

RECURSIVE WalkCatalogNoAcc(_, _, _)
\* the walk comparing the sample with each entry's own weight
WalkCatalogNoAcc(r, k, acc) ==
    IF k > Len(FAULT_CATALOG) THEN <<"NONE", "OK">>
    ELSE IF r <= FAULT_CATALOG[k][3]
         THEN <<FAULT_CATALOG[k][1], FAULT_CATALOG[k][2]>>
         ELSE WalkCatalogNoAcc(r, k + 1, acc)

RECURSIVE WalkCatalog(_, _, _)
\* the for loop of assign_fault from entry k on, acc the mass before it
WalkCatalog(r, k, acc) ==
    IF k > Len(FAULT_CATALOG) THEN <<"NONE", "OK">>
    ELSE IF r <= acc + FAULT_CATALOG[k][3]
         THEN <<FAULT_CATALOG[k][1], FAULT_CATALOG[k][2]>>
         ELSE WalkCatalog(r, k + 1, acc + FAULT_CATALOG[k][3])

\* r: the random() sample the function draws
assign_fault(r) == WalkCatalog(r, 1, 0)

----------------------------------------------------------------------------
(* Telemetry compute.  u is the sequence of random() samples the call      *)
(* takes from the stream: u[1] the noise, u[2] the voltage, u[3] the       *)
(* fault, u[4] and u[5] the fault's effect (when it draws any).            *)

RECURSIVE PowI(_, _)
\* b ** k for an integer k >= 0
PowI(b, k) == IF k = 0 THEN Micro ELSE Mul(b, PowI(b, k - 1))

\* lines 216-236: irradiance, temperatures and the power before noise
Physical(spec, ts, dl_start, dl_end, day_index, cloud_factor) ==
    LET f           == diurnal_irradiance_factor(ts, dl_start, dl_end) \div Kilo
        irr         == Mul(1000 * f, cloud_factor)
        amb_c       == ambient_temperature_c(ts)
        cell_c      == panel_cell_temp_c(amb_c, irr)
        orient_mod  == orientation_tilt_modifier(spec.orientation_deg, spec.tilt_deg)
        degr_factor == PowI(Micro - spec.degradation_per_day, day_index)
        p_raw       == Mul(Mul(Mul(Mul(spec.p_stc_w, irr \div 1000),
                                   spec.efficiency_jitter), orient_mod), degr_factor)
        delta_t     == cell_c - 25 * Micro
        p_temp      == Mul(p_raw, Micro + Mul(spec.temp_coeff_p, delta_t))
    IN  [irr |-> irr, amb_c |-> amb_c, cell_c |-> cell_c, p_temp |-> p_temp]

\* the cap at 110% of STC left out
ClampPowerNoCap(p_stc_w, p_noisy) == Max(0, p_noisy)

\* line 242
ClampPower(p_stc_w, p_noisy) == Max(0, Min(Mul(p_stc_w, 1100000), p_noisy))

\* lines 245-250: voltage and current around the MPPT point
Baseline(v_mppt, p_dc, u2) ==
    IF p_dc <= 100000
    THEN [v |-> Mul(v_mppt, uniform(920000, 1050000, u2)), i |-> 0]
    ELSE LET v == Mul(v_mppt, uniform(970000, 1030000, u2))
         IN  [v |-> v, i |-> Div(p_dc, v)]

\* INVERTER_TRIP handled as a warning that leaves the output as it is
ApplyFaultTripIgnored(fault, p_dc, i, cell_c, u4, u5) ==
    CASE fault = "STRING_OPEN" -> [p_dc |-> 0, i |-> 0, cell_c |-> cell_c]
      [] OTHER -> [p_dc |-> p_dc, i |-> i, cell_c |-> cell_c]

\* lines 258-273: the effect of the fault on power, current and cell
\* temperature
ApplyFault(fault, p_dc, i, cell_c, u4, u5) ==
    CASE fault = "SHADING" ->
            [p_dc |-> Mul(p_dc, uniform(600000, 900000, u4)), i |-> i,
             cell_c |-> cell_c]
      [] fault = "HOTSPOT" ->
            [p_dc |-> Mul(p_dc, uniform(400000, 800000, u4)), i |-> i,
             cell_c |-> cell_c + uniform(3 * Micro, 8 * Micro, u5)]
      [] fault = "STRING_OPEN" -> [p_dc |-> 0, i |-> 0, cell_c |-> cell_c]
      [] fault = "INVERTER_TRIP" -> [p_dc |-> 0, i |-> 0, cell_c |-> cell_c]
      [] fault = "SOILING" ->
            [p_dc |-> Mul(p_dc, uniform(800000, 950000, u4)), i |-> i,
             cell_c |-> cell_c]
      [] OTHER -> [p_dc |-> p_dc, i |-> i, cell_c |-> cell_c]

\* lines 276-279
RecomputeCurrent(p_dc, v) == IF v > 0 THEN Div(p_dc, v) ELSE 0

\* the clip left out
ClipNone(x) == x

\* lines 282-284: max(0.0, x)
Clip(x) == Max(0, x)

\* how many samples the call takes from the stream
DrawsUsed(fault) ==
    CASE fault \in {"SHADING", "SOILING"} -> 4
      [] fault = "HOTSPOT" -> 5
      [] OTHER -> 3

\* lines 238-300: from the power before noise to the record
Electrical(spec, ts, ph, u) ==
    LET p_noisy == Mul(ph.p_temp, uniform(980000, 1020000, u[1]))
        p_dc    == ClampPower(spec.p_stc_w, p_noisy)
        vi      == Baseline(spec.v_mppt, p_dc, u[2])
        irr     == IF ph.irr < Micro THEN 0 ELSE ph.irr
        fs      == assign_fault(u[3])
        af      == ApplyFault(fs[1], p_dc, vi.i, ph.cell_c, u[4], u[5])
        i       == RecomputeCurrent(af.p_dc, vi.v)
    IN  [timestamp_utc   |-> Isoformat(ts),
         panel_id        |-> spec.panel_id,
         string_id       |-> spec.string_id,
         status          |-> fs[2],
         fault           |-> fs[1],
         power_w         |-> Round(Clip(af.p_dc), 2),
         voltage_v       |-> Round(Clip(vi.v), 2),
         current_a       |-> Round(Clip(i), 3),
         irradiance_wm2  |-> Round(irr, 1),
         ambient_temp_c  |-> Round(ph.amb_c, 2),
         cell_temp_c     |-> Round(af.cell_c, 2),
         orientation_deg |-> Round(spec.orientation_deg, 1),
         tilt_deg        |-> Round(spec.tilt_deg, 1)]

compute_telemetry(spec, ts, dl_start, dl_end, day_index, cloud_factor, u) ==
    Electrical(spec, ts,
               Physical(spec, ts, dl_start, dl_end, day_index, cloud_factor), u)

----------------------------------------------------------------------------
(* The process-wide random generator.  Its state is a number below 10^6;   *)
(* random() steps the state through a full-period congruential sequence    *)
(* and returns the new state as a sample of [0, 1) in micro units.  The    *)
(* generator stands for the Mersenne Twister of the random module: what    *)
(* the program relies on is that the stream is a function of the seed.     *)

\* the state after one random() call
NextRng(s) == (2021 * s + 7) % Micro

\* a seed call that leaves the generator as it was
random_seed_ignored(s, a) == s

\* random.seed(a) on a generator in state s: the state depends on a alone
random_seed(s, a) == (7919 * a + 104729) % Micro

RECURSIVE Sample(_, _)
\* the k-th sample drawn from state s, k >= 1
Sample(s, k) == IF k = 1 THEN NextRng(s) ELSE Sample(NextRng(s), k - 1)

\* the generator state after k samples (0 <= k), given the samples' list
After(s, k) == IF k = 0 THEN s ELSE Sample(s, k)

\* random.choice(seq), u the sample it consumes
choice(seq, u) == seq[1 + (u * Len(seq)) \div Micro]

----------------------------------------------------------------------------
(* Fleet generator.                                                        *)

BlockSize == 20

DigitChar == <<"0", "1", "2", "3", "4", "5", "6", "7", "8", "9">>

RECURSIVE Decimal(_)
\* the decimal digits of n >= 0, most significant first
Decimal(n) ==
    IF n < 10 THEN <<DigitChar[n + 1]>>
    ELSE Append(Decimal(n \div 10), DigitChar[(n % 10) + 1])

RECURSIVE ZeroPad(_, _)
\* format(n, "0<w>d"): padded with zeros to w characters, longer if needed
ZeroPad(n, w) ==
    IF Len(Decimal(n)) >= w THEN Decimal(n)
    ELSE <<"0">> \o (IF w = 1 THEN <<>> ELSE ZeroPad(n, w - 1))

\* the block taken from the 1-based panel number
StringIndexOneBased(i) == 1 + ((i + 1) \div BlockSize)

\* line 193: the number of the string of the panel at generation index i
StringIndex(i) == 1 + (i \div BlockSize)

\* lines 185-205: the panel of generation index i, drawn from state s
MakePanel(i, s) ==
    LET p_stc  == uniform(370 * Micro, 430 * Micro, Sample(s, 1))
        v_mppt == uniform(33 * Micro, 40 * Micro, Sample(s, 2))
        i_stc  == Mul(Div(p_stc, v_mppt), uniform(950000, 1050000, Sample(s, 3)))
        coeff  == uniform(-4500, -3500, Sample(s, 4))
        degr   == uniform(30, 70, Sample(s, 5))
        jitter == uniform(980000, 1020000, Sample(s, 6))
        orient == choice(<<150, 165, 180, 195, 210>>, Sample(s, 7)) * Micro
                  + uniform(-5 * Micro, 5 * Micro, Sample(s, 8))
        tilt   == choice(<<15, 20, 25, 30, 35>>, Sample(s, 9)) * Micro
                  + uniform(-2 * Micro, 2 * Micro, Sample(s, 10))
    IN  [panel_id            |-> <<"P">> \o ZeroPad(i + 1, 5),
         p_stc_w             |-> p_stc,
         v_mppt              |-> v_mppt,
         i_stc_a             |-> i_stc,
         temp_coeff_p        |-> coeff,
         degradation_per_day |-> degr,
         efficiency_jitter   |-> jitter,
         orientation_deg     |-> orient,
         tilt_deg            |-> tilt,
         string_id           |-> <<"S">> \o ZeroPad(StringIndex(i), 2)]

\* line 181-182: entry of generate_panel_fleet(n, seed)
CallGenerate ==
    /\ pc = "call_fleet"
    /\ rng' = random_seed(rng, args.seed)
    /\ fleet' = <<>>
    /\ pc' = "gen"
    /\ UNCHANGED <<args, current, yielded, site_cloud, string_cloud, drawn,
                   given, idx, rec, out, run, first, sun_f, draws, locals, tally>>

\* lines 183-205: one iteration of `for i in range(n)`
GenPanel ==
    /\ pc = "gen"
    /\ Len(fleet) < args.n
    /\ fleet' = Append(fleet, MakePanel(Len(fleet), rng))
    /\ rng' = After(rng, 10)
    /\ UNCHANGED <<pc, args, current, yielded, site_cloud, string_cloud, drawn,
                   given, idx, rec, out, run, first, sun_f, draws, locals, tally>>

\* line 206, for a caller that only generates the fleet
ReturnFleet ==
    /\ pc = "gen"
    /\ Len(fleet) >= args.n
    /\ args.caller = "fleet"
    /\ pc' = "returned"
    /\ UNCHANGED <<args, rng, fleet, current, yielded, site_cloud, string_cloud,
                   drawn, given, idx, rec, out, run, first, sun_f, draws, locals, tally>>

MaxFleet == 45
RngStarts == {0, 271828}

InitFleet ==
    /\ pc = "call_fleet"
    /\ args \in [caller : {"fleet"}, n : 0..MaxFleet, seed : {7, 42}]
    /\ rng \in RngStarts
    /\ fleet = <<>>
    /\ current = None /\ yielded = None /\ site_cloud = None
    /\ string_cloud = None /\ drawn = None /\ given = None /\ idx = None
    /\ rec = None /\ out = None /\ run = None /\ first = None
    /\ sun_f = None /\ draws = None /\ locals = None /\ tally = None

NextFleet == CallGenerate \/ GenPanel \/ ReturnFleet

SpecFleet == InitFleet /\ [][NextFleet]_vars

\* C4: generate_panel_fleet returns exactly n panels; the panel of generation
\* index i carries the label "S" + two-digit (1 + i // 20); two panels share
\* a string exactly when their indices lie in the same block of 20, so each
\* string is one contiguous block and all but the last hold 20 panels.
C4_StringBlocks ==
    pc = "returned" =>
        /\ Len(fleet) = args.n
        /\ \A k \in 1..Len(fleet) :
              LET b == 1 + ((k - 1) \div 20)
                  members == {j \in 1..Len(fleet) :
                                 fleet[j].string_id = fleet[k].string_id}
                  lo == CHOOSE j \in members : \A m \in members : j <= m
                  hi == CHOOSE j \in members : \A m \in members : j >= m
              IN  /\ fleet[k].string_id
                        = <<"S", DigitChar[(b \div 10) + 1], DigitChar[(b % 10) + 1]>>
                  /\ members = lo..hi
                  /\ \A j \in 1..Len(fleet) :
                        (j \in members) <=> ((j - 1) \div 20 = (k - 1) \div 20)
                  /\ \/ Cardinality(members) = 20
                     \/ Len(fleet) \in members

C4_Witness ==
    /\ pc = "returned"
    /\ Len(fleet) > 2 * BlockSize
    /\ Len(fleet) % BlockSize # 0
    /\ fleet[Len(fleet)].string_id = <<"S", "0", "3">>

----------------------------------------------------------------------------
(* compute_telemetry called on its own.  PanelSpec is a plain dataclass    *)
(* and the function validates nothing, so the inputs range over values the *)
(* fleet generator produces and over values beyond them (a cloud factor    *)
(* above 1, a negative v_mppt); p_stc_w is kept positive.                  *)

MaxDay == 1

SpecOf(p, v, c, j, ot) ==
    [panel_id            |-> <<"P", "0", "0", "0", "0", "1">>,
     p_stc_w             |-> p,
     v_mppt              |-> v,
     i_stc_a             |-> Div(p, v),
     temp_coeff_p        |-> c,
     degradation_per_day |-> 70,
     efficiency_jitter   |-> j,
     orientation_deg     |-> ot[1],
     tilt_deg            |-> ot[2],
     string_id           |-> <<"S", "0", "1">>]

Pointings == {<<180 * Micro, 25 * Micro>>, <<145 * Micro, 37 * Micro>>}

PanelSpecs ==
    { SpecOf(p, v, c, j, ot) :
         p \in {370 * Micro, 400060000}, v \in {33 * Micro, 40 * Micro},
         c \in {-4500, -3500}, j \in {980000, 1020000}, ot \in Pointings }
    \cup
    { SpecOf(370 * Micro, -33 * Micro, -4500, j, ot) :
         j \in {980000, 1020000}, ot \in Pointings }

\* 01:00, the window's start, one minute after it, noon, just before its end
ComputeTimes == {3600, 21600, 21660, 43200, 64740}

Extremes == {0, Micro - 1}

\* one sample per outcome of assign_fault, at the edges of the catalog's
\* intervals
FaultSamples == {0, 1500, 2000, 2400, 2700, 3500, 3501, Micro - 1}

InitCompute ==
    /\ pc = "call_compute"
    /\ args \in [spec : PanelSpecs, ts : ComputeTimes, dl_start : {21600},
                 dl_end : {64800}, day_index : 0..MaxDay,
                 cloud_factor : {600000, Micro, 2 * Micro}]
    /\ rec = None /\ draws = <<>> /\ locals = None
    /\ rng = None /\ fleet = None
    /\ current = None /\ yielded = None /\ site_cloud = None
    /\ string_cloud = None /\ drawn = None /\ given = None /\ idx = None
    /\ out = None /\ run = None /\ first = None
    /\ sun_f = None /\ tally = None

\* lines 216-236 of one call: the part no random sample enters
ComputePhysical ==
    /\ pc = "call_compute"
    /\ locals' = Physical(args.spec, args.ts, args.dl_start, args.dl_end,
                          args.day_index, args.cloud_factor)
    /\ pc' = "noise"
    /\ UNCHANGED <<args, rng, fleet, current, yielded, site_cloud, string_cloud,
                   drawn, given, idx, rec, out, run, first, sun_f, draws, tally>>

\* lines 238-300 of the call; the samples it takes from the stream are any
ComputeElectrical ==
    /\ pc = "noise"
    /\ \E u1 \in Extremes, u2 \in Extremes, u3 \in FaultSamples,
          u4 \in Extremes, u5 \in Extremes :
          LET u == <<u1, u2, u3, u4, u5>>
              r == Electrical(args.spec, args.ts, locals, u)
          IN  /\ rec' = r
              /\ draws' = SubSeq(u, 1, DrawsUsed(r.fault))
    /\ pc' = "computed"
    /\ UNCHANGED <<args, rng, fleet, current, yielded, site_cloud, string_cloud,
                   drawn, given, idx, out, run, first, sun_f, locals, tally>>

NextCompute == ComputePhysical \/ ComputeElectrical

SpecCompute == InitCompute /\ [][NextCompute]_vars

\* C1: the returned record never has a negative power, voltage or current.
C1_NonNegative ==
    pc = "computed" =>
        rec.power_w >= 0 /\ rec.voltage_v >= 0 /\ rec.current_a >= 0

\* a spec whose voltage comes out negative: the final clip is what acts
C1_Witness ==
    /\ pc = "computed"
    /\ args.spec.v_mppt < 0
    /\ rec.voltage_v = 0 /\ rec.current_a = 0 /\ rec.power_w > 0

\* C2: with STRING_OPEN or INVERTER_TRIP assigned, power and current are 0.
C2_HardZero ==
    (pc = "computed" /\ rec.fault \in {"STRING_OPEN", "INVERTER_TRIP"}) =>
        rec.power_w = 0 /\ rec.current_a = 0

C2_Witness ==
    /\ pc = "computed"
    /\ rec.fault = "INVERTER_TRIP"
    /\ rec.irradiance_wm2 > 500 * Micro
    /\ rec.power_w = 0 /\ rec.current_a = 0

\* 1.10 * p_stc_w of the call's panel spec
Cap == Mul(args.spec.p_stc_w, 1100000)

BaselineOfCall ==
    LET p_dc == ClampPower(args.spec.p_stc_w,
                           Mul(locals.p_temp, uniform(980000, 1020000, draws[1])))
    IN  [p_dc |-> p_dc, vi |-> Baseline(args.spec.v_mppt, p_dc, draws[2])]

\* C9: with fault NONE the record's current is the baseline one: 0 when the
\* clamped power is at most 0.1 W, p_dc / voltage otherwise.
C9_BaselineCurrentKept ==
    (pc = "computed" /\ rec.fault = "NONE") =>
        rec.current_a = Round(Clip(BaselineOfCall.vi.i), 3)

----------------------------------------------------------------------------
(* diurnal_irradiance_factor called on its own.                            *)

MaxOffset == 2

\* window bounds as parse_daylight_window can return them (minutes; an end
\* past 24:00 or before the start included)
Windows == {<<21600, 64800>>, <<0, 86400>>, <<64800, 21600>>, <<43200, 108000>>,
            <<21600, 21600>>, <<21600, 21660>>}

\* seconds since midnight: around every window bound, and every half hour
DiurnalSeconds ==
    {t \in {w[k] + o : w \in Windows, k \in 1..2, o \in -MaxOffset..MaxOffset}
           \cup {1800 * k : k \in 0..47} \cup {DaySeconds - 1} :
        t >= 0 /\ t < DaySeconds}

InitDiurnal ==
    /\ pc = "call_diurnal"
    /\ \E t \in DiurnalSeconds, d \in 0..1, w \in Windows :
          args = [ts |-> d * DaySeconds + t, dl_start |-> w[1], dl_end |-> w[2]]
    /\ sun_f = None
    /\ rec = None /\ draws = None
    /\ rng = None /\ fleet = None
    /\ current = None /\ yielded = None /\ site_cloud = None
    /\ string_cloud = None /\ drawn = None /\ given = None /\ idx = None
    /\ out = None /\ run = None /\ first = None /\ locals = None
    /\ tally = None

\* lines 113-131: one call
Diurnal ==
    /\ pc = "call_diurnal"
    /\ sun_f' = diurnal_irradiance_factor(args.ts, args.dl_start, args.dl_end)
    /\ pc' = "diurnal_done"
    /\ UNCHANGED <<args, rng, fleet, current, yielded, site_cloud, string_cloud,
                   drawn, given, idx, rec, out, run, first, draws, locals, tally>>

NextDiurnal == Diurnal

SpecDiurnal == InitDiurnal /\ [][NextDiurnal]_vars

\* C5: the factor is exactly 0 at and outside the window bounds, and in
\* (0, 1] strictly inside the window.
C5_ZeroOutsidePositiveInside ==
    pc = "diurnal_done" =>
        LET ssm == args.ts % 86400
        IN  IF ssm <= args.dl_start \/ ssm >= args.dl_end
            THEN sun_f = 0
            ELSE sun_f > 0 /\ sun_f <= Nano

\* one second inside the window, the factor is already positive
C5_Witness ==
    /\ pc = "diurnal_done"
    /\ args.ts % 86400 = args.dl_start + 1
    /\ args.ts % 86400 < args.dl_end
    /\ sun_f > 0

----------------------------------------------------------------------------
(* assign_fault sampled over [0, 1).  The catalog's weights are multiples  *)
(* of 0.0001, so [0, 1) is cut into 10^4 cells of that width and each cell *)
(* is sampled at its midpoint: the share of cells mapped to an outcome is  *)
(* the probability of the outcome under a uniform sample.                  *)

Cells == 10 * Kilo
CellWidth == Micro \div Cells

Outcomes == {<<FAULT_CATALOG[k][1], FAULT_CATALOG[k][2]>> : k \in 1..Len(FAULT_CATALOG)}

InitFault ==
    /\ pc = "sampling"
    /\ args = [cell |-> 0]
    /\ tally = [o \in Outcomes |-> 0]
    /\ rec = None /\ draws = <<>> /\ locals = None
    /\ rng = None /\ fleet = None
    /\ current = None /\ yielded = None /\ site_cloud = None
    /\ string_cloud = None /\ drawn = None /\ given = None /\ idx = None
    /\ out = None /\ run = None /\ first = None /\ sun_f = None

\* lines 158-169: one call, on the sample at the midpoint of the next cell
SampleFault ==
    /\ pc = "sampling"
    /\ LET r == args.cell * CellWidth + CellWidth \div 2
           o == assign_fault(r)
       IN  /\ tally' = [tally EXCEPT ![o] = @ + 1]
           /\ draws' = <<r>>
    /\ args' = [cell |-> args.cell + 1]
    /\ pc' = IF args.cell + 1 = Cells THEN "tallied" ELSE "sampling"
    /\ UNCHANGED <<rng, fleet, current, yielded, site_cloud, string_cloud,
                   drawn, given, idx, rec, out, run, first, sun_f, locals>>

NextFault == SampleFault

SpecFault == InitFault /\ [][NextFault]_vars

\* the probabilities the catalog table states, in cells of 0.0001
StatedCells ==
    (<<"SHADING", "WARNING">> :> 15) @@ (<<"HOTSPOT", "FAULT">> :> 5)
    @@ (<<"STRING_OPEN", "FAULT">> :> 4) @@ (<<"INVERTER_TRIP", "FAULT">> :> 3)
    @@ (<<"SOILING", "WARNING">> :> 8)

\* C6 as stated: each fault has its stated probability and NONE/OK has the
\* rest, about 0.9975.
C6_RemainderAbout9975 ==
    pc = "tallied" =>
        /\ \A o \in DOMAIN StatedCells : tally[o] = StatedCells[o]
        /\ tally[<<"NONE", "OK">>] >= 9975 - 1
        /\ tally[<<"NONE", "OK">>] <= 9975 + 1

\* C6 as amended: each fault has its stated probability and NONE/OK has the
\* rest, which is 0.9965 (the fault weights sum to 0.0035).
C6_RemainderIs9965 ==
    pc = "tallied" =>
        /\ \A o \in DOMAIN StatedCells : tally[o] = StatedCells[o]
        /\ tally[<<"NONE", "OK">>] = 9965

C6_Witness ==
    /\ pc = "tallied"
    /\ tally[<<"SOILING", "WARNING">>] > 0
    /\ tally[<<"NONE", "OK">>] > tally[<<"SHADING", "WARNING">>]

----------------------------------------------------------------------------
(* make_time_range iterated on its own.                                    *)

MaxStep == 3
MaxDuration == 7

\* the end instant excluded
InRangeStrict(cur, end) == cur < end

\* line 87: the loop test
InRange(cur, end) == cur <= end

InitTime ==
    /\ pc = "range"
    /\ args \in [start_utc : {0, DaySeconds - 5}, duration : 0..MaxDuration,
                 step_s : 1..MaxStep]
    /\ current = args.start_utc
    /\ yielded = <<>>
    /\ rec = None /\ draws = None /\ locals = None
    /\ rng = None /\ fleet = None /\ site_cloud = None
    /\ string_cloud = None /\ drawn = None /\ given = None /\ idx = None
    /\ out = None /\ run = None /\ first = None /\ sun_f = None
    /\ tally = None

\* lines 87-89: one iteration: yield current, then advance it
RangeYield ==
    /\ pc = "range"
    /\ InRange(current, args.start_utc + args.duration)
    /\ yielded' = Append(yielded, current)
    /\ current' = current + args.step_s
    /\ UNCHANGED <<pc, args, rng, fleet, site_cloud, string_cloud, drawn, given,
                   idx, rec, out, run, first, sun_f, draws, locals, tally>>

\* line 87: the loop test fails and the generator is exhausted
RangeStop ==
    /\ pc = "range"
    /\ ~InRange(current, args.start_utc + args.duration)
    /\ pc' = "exhausted"
    /\ UNCHANGED <<args, rng, fleet, current, yielded, site_cloud, string_cloud,
                   drawn, given, idx, rec, out, run, first, sun_f, draws, locals,
                   tally>>

NextTime == RangeYield \/ RangeStop

\* the consumer keeps asking for the next timestamp
SpecTime == InitTime /\ [][NextTime]_vars /\ WF_vars(NextTime)

\* C10: for a positive step and a non-negative duration the generator
\* terminates, having yielded exactly start, start + step, ... up to
\* start + duration: floor(duration / step) + 1 timestamps.
C10_TerminatesWithSteps ==
    /\ <>(pc = "exhausted")
    /\ [](pc = "exhausted" =>
            yielded = [k \in 1..((args.duration \div args.step_s) + 1) |->
                          args.start_utc + (k - 1) * args.step_s])

\* the end instant falls on a step and is the last timestamp yielded
C10_Witness ==
    /\ pc = "exhausted"
    /\ Len(yielded) >= 3
    /\ yielded[Len(yielded)] = args.start_utc + args.duration

----------------------------------------------------------------------------
(* main: two independent runs of the program on the same arguments, one    *)
(* after the other.  Each run is a process of its own, so its generator    *)
(* starts in a state unrelated to the other's.                             *)

MaxPanels == 41
MaxTicks == 2

Empty == <<>>

\* the cache never consulted
NeedsDrawAlways(string_id, cache) == TRUE

\* line 362: is the string's factor still to be drawn in this timestamp
NeedsDraw(string_id, cache) == string_id \notin DOMAIN cache

\* line 363: the factor of a string, u the sample it takes
StringFactor(site, u) == Max(600000, Min(Micro, Mul(site, uniform(950000, 1050000, u))))

InitMain ==
    /\ pc = "main"
    /\ args \in [caller : {"main"}, n : {0, 1, BlockSize + 1, MaxPanels},
                 seed : {7, 42}, start_utc : {21540, DaySeconds - 60},
                 duration : {60 * k : k \in 0..MaxTicks}, step_s : {60},
                 dl_start : {21600}, dl_end : {64800}]
    /\ \E s \in RngStarts : rng = s /\ run = [no |-> 1, rng0 |-> s]
    /\ fleet = <<>> /\ out = <<>>
    /\ current = None /\ yielded = None /\ site_cloud = None
    /\ string_cloud = Empty /\ drawn = Empty /\ given = Empty /\ idx = 0
    /\ rec = None /\ draws = <<>> /\ locals = None /\ first = None
    /\ sun_f = None /\ tally = None

\* line 311
SeedMain ==
    /\ pc = "main"
    /\ rng' = random_seed(rng, args.seed)
    /\ pc' = "call_fleet"
    /\ UNCHANGED <<args, fleet, current, yielded, site_cloud, string_cloud,
                   drawn, given, idx, rec, out, run, first, sun_f, draws, locals,
                   tally>>

\* lines 336-354: the fleet is returned to main and the time range starts
EnterLoop ==
    /\ pc = "gen"
    /\ Len(fleet) >= args.n
    /\ args.caller = "main"
    /\ current' = args.start_utc
    /\ pc' = "loop"
    /\ UNCHANGED <<args, rng, fleet, yielded, site_cloud, string_cloud, drawn,
                   given, idx, rec, out, run, first, sun_f, draws, locals, tally>>

\* lines 354-359: make_time_range yields the next timestamp; the site's
\* cloud factor is drawn and the string cache starts empty
NextTimestamp ==
    /\ pc = "loop"
    /\ InRange(current, args.start_utc + args.duration)
    /\ site_cloud' = cloud_cover_factor(Sample(rng, 1), Sample(rng, 2))
    /\ rng' = After(rng, 2)
    /\ string_cloud' = Empty
    /\ drawn' = Empty
    /\ given' = Empty
    /\ idx' = 1
    /\ pc' = "panels"
    /\ UNCHANGED <<args, fleet, current, yielded, rec, out, run, first, sun_f,
                   draws, locals, tally>>

\* lines 361-376: one iteration of `for spec in fleet`
PanelStep ==
    /\ pc = "panels"
    /\ idx <= Len(fleet)
    /\ LET spec  == fleet[idx]
           sid   == spec.string_id
           need  == NeedsDraw(sid, string_cloud)
           cache == IF need
                    THEN (sid :> StringFactor(site_cloud, Sample(rng, 1)))
                         @@ string_cloud
                    ELSE string_cloud
           rng1  == IF need THEN After(rng, 1) ELSE rng
           u     == [k \in 1..5 |-> Sample(rng1, k)]
           r     == compute_telemetry(spec, current, args.dl_start, args.dl_end,
                                      day_number_since(args.start_utc, current),
                                      cache[sid], u)
       IN  /\ string_cloud' = cache
           /\ drawn' = IF need
                       THEN (sid :> Append(IF sid \in DOMAIN drawn
                                           THEN drawn[sid] ELSE <<>>, idx))
                            @@ drawn
                       ELSE drawn
           /\ given' = (sid :> ((IF sid \in DOMAIN given THEN given[sid] ELSE {})
                                \cup {cache[sid]})) @@ given
           /\ rec' = r
           /\ out' = Append(out, r)
           /\ draws' = SubSeq(u, 1, DrawsUsed(r.fault))
           /\ rng' = After(rng1, DrawsUsed(r.fault))
    /\ idx' = idx + 1
    /\ UNCHANGED <<pc, args, fleet, current, yielded, site_cloud, run, first,
                   sun_f, locals, tally>>

\* line 89: the fleet is done; the generator advances to the next timestamp
EndTimestamp ==
    /\ pc = "panels"
    /\ idx > Len(fleet)
    /\ current' = current + args.step_s
    /\ pc' = "loop"
    /\ UNCHANGED <<args, rng, fleet, yielded, site_cloud, string_cloud, drawn,
                   given, idx, rec, out, run, first, sun_f, draws, locals, tally>>

\* line 87: the time range is exhausted and the run ends
EndRun ==
    /\ pc = "loop"
    /\ ~InRange(current, args.start_utc + args.duration)
    /\ pc' = "end_run"
    /\ UNCHANGED <<args, rng, fleet, current, yielded, site_cloud, string_cloud,
                   drawn, given, idx, rec, out, run, first, sun_f, draws, locals,
                   tally>>

\* the second run: a fresh process on the same arguments
SecondRun ==
    /\ pc = "end_run"
    /\ run.no = 1
    /\ first' = [fleet |-> fleet, out |-> out, rng |-> rng, rng0 |-> run.rng0]
    /\ \E s \in RngStarts : rng' = s /\ run' = [no |-> 2, rng0 |-> s]
    /\ fleet' = <<>> /\ out' = <<>>
    /\ string_cloud' = Empty /\ drawn' = Empty /\ given' = Empty /\ idx' = 0
    /\ rec' = None /\ draws' = <<>>
    /\ pc' = "main"
    /\ UNCHANGED <<args, current, yielded, site_cloud, sun_f, locals, tally>>

Next ==
    \/ SeedMain \/ CallGenerate \/ GenPanel \/ EnterLoop \/ NextTimestamp
    \/ PanelStep \/ EndTimestamp \/ EndRun \/ SecondRun

Spec == InitMain /\ [][Next]_vars

\* C3: two runs with the same seed, timestamps and panel count build the
\* same fleet, write the same records field for field, and leave the
\* generator in the same state (they took the same samples in the same
\* order).
C3_RunsIdentical ==
    (pc = "end_run" /\ run.no = 2) =>
        /\ first.fleet = fleet
        /\ first.out = out
        /\ first.rng = rng

\* two runs whose generators started in different states, over several
\* timestamps and strings
C3_Witness ==
    /\ pc = "end_run" /\ run.no = 2
    /\ first.rng0 # run.rng0
    /\ Len(fleet) > BlockSize
    /\ Len(out) > Len(fleet)
    /\ first.out = out

\* C8: within a timestamp the cache holds exactly the strings of the panels
\* already handled (so it is empty before the first panel); each string's
\* factor was drawn once, at the first panel of that string in fleet order;
\* every panel of the string was given that one value; it lies in [0.6, 1].
C8_StringCloudCache ==
    pc = "panels" =>
        LET seen == {fleet[j].string_id : j \in 1..(idx - 1)}
        IN  /\ DOMAIN string_cloud = seen
            /\ DOMAIN drawn = seen
            /\ DOMAIN given = seen
            /\ \A s \in seen :
                  /\ drawn[s] = <<CHOOSE j \in 1..Len(fleet) :
                                     /\ fleet[j].string_id = s
                                     /\ \A m \in 1..(j - 1) : fleet[m].string_id # s>>
                  /\ given[s] = {string_cloud[s]}
                  /\ string_cloud[s] >= 600000
                  /\ string_cloud[s] <= Micro

\* a later timestamp with three strings cached, two of them with different
\* factors, one factor clamped to 1.0
C8_Witness ==
    /\ pc = "panels"
    /\ current > args.start_utc
    /\ idx > 2 * BlockSize + 1
    /\ Cardinality(DOMAIN string_cloud) = 3
    /\ \E s, t \in DOMAIN string_cloud : string_cloud[s] # string_cloud[t]
    /\ \E s \in DOMAIN string_cloud : string_cloud[s] = Micro

====
